---- MODULE Spec2Model ----
(***************************************************************************)
(* Model of Book/gen_contents.py: the chapter generator that scans the     *)
(* project root for chapter directories, collects and sorts the source     *)
(* files of each, and writes one chapter<N>.tex per directory.             *)
(*                                                                         *)
(* Text is modelled as a sequence of strings: a name is a sequence of      *)
(* one-character strings, a chunk written by one fout.write call is the    *)
(* sequence of the literal pieces and the characters formatted into it,    *)
(* and a document is the sequence of chunks written to it.                 *)
(***************************************************************************)
EXTENDS Integers, Sequences, FiniteSets, TLC

\* ---------------------------------------------------------------- bounds
\* Root entries in the project directory.
MaxDirs == 2
\* Files in the whole tree.
MaxFiles == 2
\* Largest section number of a file name in the universe.
MaxSection == 2
\* Largest subsection number of a file name in the universe.
MaxSubsection == 1

\* ------------------------------------------------------- Python builtins
\* Python's None (no int parsed from a name is negative).
None == -1

DigitSeq == <<"0", "1", "2", "3", "4", "5", "6", "7", "8", "9">>
Digits == {DigitSeq[i] : i \in 1..10}
Whitespace == {" ", "\t", "\n", "\r", "\f"}

DigitVal(c) == (CHOOSE i \in 1..10 : DigitSeq[i] = c) - 1

\* int(s) for a string of decimal digits: leading zeros do not count.
RECURSIVE int(_)
int(s) == IF s = <<>> THEN 0
          ELSE int(SubSeq(s, 1, Len(s) - 1)) * 10 + DigitVal(s[Len(s)])

\* str(n), the decimal digits an f-string formats an int into.
RECURSIVE str(_)
str(n) == IF n < 10 THEN <<DigitSeq[n + 1]>>
          ELSE str(n \div 10) \o <<DigitSeq[(n % 10) + 1]>>

\* s.replace(a, b) for one-character a and b.
replace(s, a, b) == [i \in 1..Len(s) |-> IF s[i] = a THEN b ELSE s[i]]

\* Truth value of an int-or-None: None and 0 are false.
Truthy(x) == x # None /\ x # 0

\* Characters in ascending code point order, for str comparison.
CodeOrder == <<"\t", "\n", "\f", "\r", " ", "-", ".",
               "0", "1", "2", "3", "4", "5", "6", "7", "8", "9", "_",
               "a", "b", "c", "d", "e", "f", "g", "h", "i", "j", "k", "l", "m",
               "n", "o", "p", "q", "r", "s", "t", "u", "v", "w", "x", "y", "z">>
ord(c) == CHOOSE i \in 1..Len(CodeOrder) : CodeOrder[i] = c

\* a < b on str: lexicographic by code point, a proper prefix is smaller.
RECURSIVE StrLess(_, _)
StrLess(a, b) == IF b = <<>> THEN FALSE
                 ELSE IF a = <<>> THEN TRUE
                 ELSE IF a[1] = b[1] THEN StrLess(Tail(a), Tail(b))
                 ELSE ord(a[1]) < ord(b[1])

\* ---------------------------------------------------- regular expressions
\* Length of the longest run of digits of s that starts at position i.
RECURSIVE DigitRun(_, _)
DigitRun(s, i) == IF i <= Len(s) /\ s[i] \in Digits THEN 1 + DigitRun(s, i + 1)
                  ELSE 0

NoMatch == [matched |-> FALSE]

\* DIR_RE = ^(\d+)-(\S+)$
DIR_RE(s) ==
    LET k == DigitRun(s, 1)
    IN  IF /\ k >= 1
           /\ Len(s) >= k + 2
           /\ s[k + 1] = "-"
           /\ \A i \in (k + 2)..Len(s) : s[i] \notin Whitespace
        THEN [matched |-> TRUE, g1 |-> SubSeq(s, 1, k),
              g2 |-> SubSeq(s, k + 2, Len(s))]
        ELSE NoMatch

\* FILE_RE = ^(\d+)\.(\d+)(?:\.(\d+))?_(\S+)\.cpp$
\* group 3 is <<>> when the optional subsection did not take part.
FILE_RE(s) ==
    LET k1 == DigitRun(s, 1)
        k2 == DigitRun(s, k1 + 2)
        q  == k1 + k2 + 2
        k3 == DigitRun(s, q + 1)
        sub == /\ q <= Len(s)
               /\ s[q] = "."
               /\ k3 >= 1
        u  == IF sub THEN q + k3 + 1 ELSE q
        n  == Len(s)
    IN  IF /\ k1 >= 1
           /\ k1 + 1 <= n
           /\ s[k1 + 1] = "."
           /\ k2 >= 1
           /\ u <= n
           /\ s[u] = "_"
           /\ n - u >= 5
           /\ SubSeq(s, n - 3, n) = <<".", "c", "p", "p">>
           /\ \A i \in (u + 1)..(n - 4) : s[i] \notin Whitespace
        THEN [matched |-> TRUE, g1 |-> SubSeq(s, 1, k1),
              g2 |-> SubSeq(s, k1 + 2, k1 + k2 + 1),
              g3 |-> IF sub THEN SubSeq(s, q + 1, q + k3) ELSE <<>>,
              g4 |-> SubSeq(s, u + 1, n - 4)]
        ELSE NoMatch

\* ------------------------------------------------------ section titles
SECTION_NAMES ==
    <<1, 1>> :> "Array Transformations" @@ <<1, 2>> :> "Array Queries" @@
    <<1, 3>> :> "Searching" @@ <<1, 4>> :> "Cycle Detection" @@
    <<2, 1>> :> "Heaps" @@ <<2, 2>> :> "Dictionaries" @@
    <<2, 3>> :> "Range Queries in One Dimension" @@
    <<2, 4>> :> "Range Queries in Two Dimensions" @@
    <<2, 5>> :> "Fenwick Trees" @@ <<2, 6>> :> "Tree Data Structures" @@
    <<3, 1>> :> "String Utilities" @@ <<3, 3>> :> "String Searching" @@
    <<3, 2>> :> "Expression Parsing" @@ <<3, 4>> :> "Dynamic Programming" @@
    <<3, 5>> :> "Suffix Array and LCP" @@ <<3, 6>> :> "String Data Structures" @@
    <<4, 1>> :> "Depth-First Search" @@ <<4, 2>> :> "Shortest Path" @@
    <<4, 3>> :> "Connectivity" @@ <<4, 4>> :> "Minimum Spanning Tree" @@
    <<4, 5>> :> "Maximum Flow" @@ <<4, 6>> :> "Maximum Matching" @@
    <<4, 7>> :> "Hard Problems" @@
    <<5, 1>> :> "Math Utilities" @@ <<5, 2>> :> "Combinatorics" @@
    <<5, 3>> :> "Number Theory" @@
    <<5, 4>> :> "Arbitrary Precision Arithmetic" @@
    <<5, 5>> :> "Linear Algebra" @@ <<5, 6>> :> "Root Finding and Calculus" @@
    <<6, 1>> :> "Geometric Classes" @@
    <<6, 2>> :> "Elementary Geometric Calculations" @@
    <<6, 3>> :> "Intermediate Geometric Calculations" @@
    <<6, 4>> :> "Advanced Geometric Computations"

\* SECTION_NAMES.get((chapter, section), "")
SectionName(chapter, section) ==
    IF <<chapter, section>> \in DOMAIN SECTION_NAMES
    THEN SECTION_NAMES[<<chapter, section>>] ELSE ""

\* ------------------------------------------------------------- sorting
\* a < b on the entry tuples (chapter, section, subsection, name, file):
\* the first position where they differ decides; None against an int there
\* raises TypeError.
TupleLess(a, b) ==
    LET B(x) == IF x THEN "True" ELSE "False"
    IN  IF a[1] # b[1] THEN B(a[1] < b[1])
        ELSE IF a[2] # b[2] THEN B(a[2] < b[2])
        ELSE IF a[3] # b[3]
             THEN IF a[3] = None \/ b[3] = None THEN "TypeError"
                  ELSE B(a[3] < b[3])
        ELSE IF a[4] # b[4] THEN B(StrLess(a[4], b[4]))
        ELSE IF a[5] # b[5] THEN B(StrLess(a[5], b[5]))
        ELSE "False"

\* e put into its place in the sorted sequence s, or the TypeError of the
\* first comparison that raises.
RECURSIVE Insert(_, _)
Insert(e, s) ==
    IF s = <<>> THEN [ok |-> TRUE, val |-> <<e>>]
    ELSE LET c == TupleLess(e, Head(s))
         IN  IF c = "TypeError" THEN [ok |-> FALSE, val |-> <<>>]
             ELSE IF c = "True" THEN [ok |-> TRUE, val |-> <<e>> \o s]
             ELSE LET r == Insert(e, Tail(s))
                  IN  IF r.ok THEN [ok |-> TRUE, val |-> <<Head(s)>> \o r.val]
                      ELSE r

\* The entries left in listing order.
sorted_Unsorted(es) == [ok |-> TRUE, val |-> es]

\* sorted(entries): the ascending list, or ok = FALSE when a comparison
\* raises TypeError.
RECURSIVE sorted(_)
sorted(es) ==
    IF es = <<>> THEN [ok |-> TRUE, val |-> <<>>]
    ELSE LET r == sorted(SubSeq(es, 1, Len(es) - 1))
         IN  IF r.ok THEN Insert(es[Len(es)], r.val) ELSE r

\* ------------------------------------------------------- written chunks
OutName(chapter) == <<"chapter">> \o str(chapter) \o <<".tex">>

TitleChunk(chapter_name) ==
    <<"\\chapter{">> \o replace(chapter_name, "-", " ") \o <<"}\n">>

SectionHeader(chapter, section) ==
    <<"\n\\section{", SectionName(chapter, section), "}\n">>

SetSectionCounter(section) ==
    <<"\\setcounter{section}{">> \o str(section) \o <<"}\n">>

ResetSubsection == <<"\\setcounter{subsection}{0}\n">>

SubsectionHeader(name) ==
    <<"\\subsection{">> \o replace(name, "_", " ") \o <<"}\n">>

BeginListing == <<"\\begin{lstlisting}\n">>
EndListing == <<"\\end{lstlisting}\n">>

\* srcfile.read(): every file of the universe holds a text of its own.
Contents(dir, file) == <<"// ">> \o dir \o <<"/">> \o file

\* ------------------------------------------------ steps of gen_chapter
\* An assertion that never fails.
ChapterMatches_Always(chapter, g1) == TRUE

\* The assertion of the collection loop.
ChapterMatches(chapter, g1) == chapter = int(g1)

\* The entry built from a match.
Entry(chapter, m, file) ==
    <<chapter, int(m.g2), IF m.g3 # <<>> THEN int(m.g3) ELSE None, m.g4, file>>

\* Section 1 skipped as well.
Skipped_OffByOne(section) == section <= 1

\* Sections below 1 are not emitted.
Skipped(section) == section < 1

\* The subsection counter reset at every section change.
SectionChunks_AlwaysReset(chapter, section, subsection, prev) ==
    IF section # prev
    THEN <<SectionHeader(chapter, section), SetSectionCounter(section),
           ResetSubsection>>
    ELSE <<>>

\* What a section change writes.
SectionChunks(chapter, section, subsection, prev) ==
    IF section # prev
    THEN <<SectionHeader(chapter, section), SetSectionCounter(section)>>
         \o (IF Truthy(subsection) THEN <<ResetSubsection>> ELSE <<>>)
    ELSE <<>>

SubsectionChunks(subsection, name) ==
    IF Truthy(subsection) THEN <<SubsectionHeader(name)>> ELSE <<>>

ListingChunks(dir, file) == <<BeginListing, Contents(dir, file), EndListing>>

\* open(path, 'a'): an existing file keeps what it holds.
Open_Append(fs, path) ==
    [p \in DOMAIN fs \cup {path} |-> IF p \in DOMAIN fs THEN fs[p] ELSE <<>>]

\* open(path, 'w'): the file exists and is empty.
Open(fs, path) == [p \in DOMAIN fs \cup {path} |-> IF p = path THEN <<>> ELSE fs[p]]

\* fout.write of a run of chunks.
Write(fs, path, chunks) == [fs EXCEPT ![path] = @ \o chunks]

\* ------------------------------------------------------- input universe
MkFile(chap, section, subsection, name) ==
    chap \o <<".">> \o str(section)
    \o (IF subsection = None THEN <<>> ELSE <<".">> \o str(subsection))
    \o <<"_">> \o name \o <<".", "c", "p", "p">>

\* Chapter 1 files: one without a subsection in each section from the
\* unlisted section 0 up, one with each subsection number in the last
\* section; two files that tie with `1.1_b_c.cpp` on the numbers; a
\* chapter 2 file; a name that is no source file.
FileUniverse ==
    { MkFile(<<"1">>, s, None, <<"b", "_", "c">>) : s \in 0..MaxSection }
    \cup { MkFile(<<"1">>, MaxSection, ss, <<"b", "_", "c">>) :
             ss \in 0..MaxSubsection }
    \cup { MkFile(<<"1">>, 1, None, <<"a">>),
           MkFile(<<"0", "1">>, 1, None, <<"b", "_", "c">>),
           MkFile(<<"2">>, 1, None, <<"a">>),
           <<"n", "o", "t", "e", "s", ".", "t", "x", "t">> }

RootUniverse ==
    { [name |-> <<"1", "-", "a">>, isdir |-> TRUE],
      [name |-> <<"0", "1", "-", "b", "-", "c">>, isdir |-> TRUE],
      [name |-> <<"2", "-", "d">>, isdir |-> TRUE],
      [name |-> <<"x">>, isdir |-> TRUE],
      [name |-> <<"3", "-", "e">>, isdir |-> FALSE] }

RECURSIVE SubsetsUpTo(_, _)
SubsetsUpTo(S, k) ==
    IF k = 0 THEN {{}}
    ELSE LET prev == SubsetsUpTo(S, k - 1)
         IN  prev \cup { T \cup {x} : T \in prev, x \in S }

\* The output directory before the run: chapter1.tex is left from an
\* earlier run, no other output exists yet.
StaleDoc == << <<"stale">> >>
PriorOutputs == [p \in {OutName(1)} |-> StaleDoc]

\* ---------------------------------------------------------------- state
VARIABLES
    root,          \* entries of the project directory: [name, isdir]
    files,         \* <<directory name, file name>> of every file in the tree
    prior,         \* the output files before the run
    out,           \* the output files: path -> document
    pc,            \* main | collect | emit | done | AssertionError | TypeError
    pending,       \* root entries the main loop has not reached
    started,       \* directories gen_chapter was called for, in call order
    dirname,       \* gen_chapter's arguments
    chapter,
    chapter_name,
    listing,       \* files the collection loop has not reached
    entries,
    queue,         \* rest of sorted(entries)
    prev_section,
    run,           \* 1, or 2 in a second run on the same tree
    firstOut,      \* outputs and end of the first run
    firstPc

vars == <<root, files, prior, out, pc, pending, started, dirname, chapter,
          chapter_name, listing, entries, queue, prev_section, run, firstOut,
          firstPc>>

tree == <<root, files>>
locals == <<dirname, chapter, chapter_name, listing, entries, queue, prev_section>>
runs == <<run, firstOut, firstPc>>

ListDir(d) == { f[2] : f \in { g \in files : g[1] = d } }

\* A main loop that goes on to the next directory after a failed assertion.
Running_AfterFailure == pc \in {"main", "AssertionError"}

\* The main loop runs while no exception has left it.
Running == pc = "main"

Init ==
    /\ root \in { R \in SUBSET RootUniverse : Cardinality(R) <= MaxDirs }
    /\ files \in SubsetsUpTo(
           { e.name : e \in { r \in root : r.isdir /\ DIR_RE(r.name).matched } }
               \X FileUniverse, MaxFiles)
    /\ prior = PriorOutputs
    /\ out = prior
    /\ pc = "main"
    /\ pending = root
    /\ started = <<>>
    /\ dirname = <<>>
    /\ chapter = None
    /\ chapter_name = <<>>
    /\ listing = {}
    /\ entries = <<>>
    /\ queue = <<>>
    /\ prev_section = None
    /\ run = 1
    /\ firstOut = <<>>
    /\ firstPc = ""

\* Main loop: a root entry that is no directory or does not match DIR_RE.
MainSkip ==
    /\ Running
    /\ \E e \in pending :
        /\ ~(e.isdir /\ DIR_RE(e.name).matched)
        /\ pending' = pending \ {e}
    /\ UNCHANGED <<tree, prior, out, pc, started, locals, runs>>

\* Main loop calls gen_chapter, which opens the output and writes the title.
GenChapterOpen ==
    /\ Running
    /\ \E e \in pending :
        /\ e.isdir /\ DIR_RE(e.name).matched
        /\ LET m == DIR_RE(e.name)
               path == OutName(int(m.g1))
           IN  /\ pending' = pending \ {e}
               /\ dirname' = e.name
               /\ chapter' = int(m.g1)
               /\ chapter_name' = m.g2
               /\ started' = Append(started, e.name)
               /\ out' = Write(Open(out, path), path, <<TitleChunk(m.g2)>>)
               /\ listing' = ListDir(e.name)
               /\ entries' = <<>>
               /\ pc' = "collect"
    /\ UNCHANGED <<tree, prior, queue, prev_section, runs>>

\* Collection loop: a file that does not match FILE_RE.
CollectSkip ==
    /\ pc = "collect"
    /\ \E f \in listing :
        /\ ~FILE_RE(f).matched
        /\ listing' = listing \ {f}
    /\ UNCHANGED <<tree, prior, out, pc, pending, started, dirname, chapter,
                   chapter_name, entries, queue, prev_section, runs>>

\* Collection loop: the assertion fails.
CollectAssertFail ==
    /\ pc = "collect"
    /\ \E f \in listing :
        /\ FILE_RE(f).matched
        /\ ~ChapterMatches(chapter, FILE_RE(f).g1)
        /\ listing' = listing \ {f}
    /\ pc' = "AssertionError"
    /\ UNCHANGED <<tree, prior, out, pending, started, dirname, chapter,
                   chapter_name, entries, queue, prev_section, runs>>

\* Collection loop: a matching file becomes an entry.
CollectAppend ==
    /\ pc = "collect"
    /\ \E f \in listing :
        /\ FILE_RE(f).matched
        /\ ChapterMatches(chapter, FILE_RE(f).g1)
        /\ listing' = listing \ {f}
        /\ entries' = Append(entries, Entry(chapter, FILE_RE(f), f))
    /\ UNCHANGED <<tree, prior, out, pc, pending, started, dirname, chapter,
                   chapter_name, queue, prev_section, runs>>

\* The emission loop starts on sorted(entries).
SortOk ==
    /\ pc = "collect"
    /\ listing = {}
    /\ sorted(entries).ok
    /\ queue' = sorted(entries).val
    /\ prev_section' = None
    /\ pc' = "emit"
    /\ UNCHANGED <<tree, prior, out, pending, started, dirname, chapter,
                   chapter_name, listing, entries, runs>>

\* sorted(entries) raises TypeError.
SortTypeError ==
    /\ pc = "collect"
    /\ listing = {}
    /\ ~sorted(entries).ok
    /\ pc' = "TypeError"
    /\ UNCHANGED <<tree, prior, out, pending, started, locals, runs>>

\* Emission loop: an entry of a section below 1.
EmitSkip ==
    /\ pc = "emit"
    /\ queue # <<>>
    /\ Skipped(Head(queue)[2])
    /\ queue' = Tail(queue)
    /\ UNCHANGED <<tree, prior, out, pc, pending, started, dirname, chapter,
                   chapter_name, listing, entries, prev_section, runs>>

\* Emission loop: headers and listing of one entry.
EmitEntry ==
    /\ pc = "emit"
    /\ queue # <<>>
    /\ ~Skipped(Head(queue)[2])
    /\ LET e == Head(queue)
       IN  /\ out' = Write(out, OutName(chapter),
                        SectionChunks(e[1], e[2], e[3], prev_section)
                        \o SubsectionChunks(e[3], e[4])
                        \o ListingChunks(dirname, e[5]))
           /\ prev_section' = e[2]
    /\ queue' = Tail(queue)
    /\ UNCHANGED <<tree, prior, pc, pending, started, dirname, chapter,
                   chapter_name, listing, entries, runs>>

\* fout.close() and return to the main loop.
GenChapterReturn ==
    /\ pc = "emit"
    /\ queue = <<>>
    /\ pc' = "main"
    /\ dirname' = <<>>
    /\ chapter' = None
    /\ chapter_name' = <<>>
    /\ entries' = <<>>
    /\ prev_section' = None
    /\ UNCHANGED <<tree, prior, out, pending, started, listing, queue, runs>>

\* The main loop ends.
MainDone ==
    /\ Running
    /\ pending = {}
    /\ pc' = "done"
    /\ UNCHANGED <<tree, prior, out, pending, started, locals, runs>>

\* A second run on the unchanged tree, over the outputs the first one left.
Rerun ==
    /\ pc \in {"done", "AssertionError", "TypeError"}
    /\ run = 1
    /\ run' = 2
    /\ firstOut' = out
    /\ firstPc' = pc
    /\ prior' = out
    /\ pc' = "main"
    /\ pending' = root
    /\ started' = <<>>
    /\ dirname' = <<>>
    /\ chapter' = None
    /\ chapter_name' = <<>>
    /\ listing' = {}
    /\ entries' = <<>>
    /\ queue' = <<>>
    /\ prev_section' = None
    /\ UNCHANGED <<tree, out>>

Next ==
    \/ MainSkip
    \/ GenChapterOpen
    \/ CollectSkip
    \/ CollectAssertFail
    \/ CollectAppend
    \/ SortOk
    \/ SortTypeError
    \/ EmitSkip
    \/ EmitEntry
    \/ GenChapterReturn
    \/ MainDone

Spec == Init /\ [][Next]_vars

NextRerun ==
    \/ Next
    \/ Rerun

\* One run, or two runs one after the other on the same tree.
SpecRerun == Init /\ [][NextRerun]_vars

\* ------------------------------------------------- reading the documents
\* Chapter directories of the tree, the number and output path of each.
ChapterDirs == { e.name : e \in { r \in root : r.isdir /\ DIR_RE(r.name).matched } }
ChapterOf(d) == int(DIR_RE(d).g1)
PathOf(d) == <<"chapter">> \o str(ChapterOf(d)) \o <<".tex">>

\* Files of directory d whose names match the file pattern, and those among
\* them whose chapter number is not the directory's.
MatchedFiles(d) == { f \in ListDir(d) : FILE_RE(f).matched }
Mismatched(d) == { f \in MatchedFiles(d) : int(FILE_RE(f).g1) # ChapterOf(d) }
SectionOf(f) == int(FILE_RE(f).g2)
HasSubsection(f) == FILE_RE(f).g3 # <<>>
SubsectionOf(f) == int(FILE_RE(f).g3)

StartedDirs == { started[i] : i \in 1..Len(started) }
LastStarted == started[Len(started)]

\* gen_chapter has returned normally from the last directory it was called
\* for, and nothing has been written since.
LastReturned == started # <<>> /\ pc \in {"main", "done"}

Positions(doc, chunk) == { i \in 1..Len(doc) : doc[i] = chunk }
IsSectionHeader(c) == c[1] = "\n\\section{"
IsSetSection(c) == c[1] = "\\setcounter{section}{"
IsSubsectionHeader(c) == c[1] = "\\subsection{"
SectionNumber(c) == int(SubSeq(c, 2, Len(c) - 1))

\* The chunks the step from this state to the next appends to the document
\* being generated.
NewChunks ==
    SubSeq(out'[OutName(chapter)], Len(out[OutName(chapter)]) + 1,
           Len(out'[OutName(chapter)]))

\* ---------------------------------------------------------------- claims

\* C1: a run that ends normally leaves one document per chapter directory:
\* as many distinct chapter<N>.tex files were written as there are chapter
\* directories, and each directory's document is there under its own title.
C1_OneDocumentPerDirectory ==
    pc = "done" =>
        /\ Cardinality({ PathOf(d) : d \in StartedDirs }) = Cardinality(ChapterDirs)
        /\ \A d \in ChapterDirs :
              /\ PathOf(d) \in DOMAIN out
              /\ out[PathOf(d)][1] =
                    <<"\\chapter{">> \o replace(DIR_RE(d).g2, "-", " ") \o <<"}\n">>

\* C2 as stated: after gen_chapter returns normally, every matching file of
\* the directory, of every section number including 0, has its contents in
\* the document exactly once, between one begin/end listing pair.
C2_EveryMatchingFileOnce ==
    LastReturned =>
        LET d == LastStarted
            doc == out[PathOf(d)]
        IN  \A f \in MatchedFiles(d) \ Mismatched(d) :
                LET P == Positions(doc, <<"// ">> \o d \o <<"/">> \o f)
                IN  /\ Cardinality(P) = 1
                    /\ \A i \in P : /\ 1 < i /\ i < Len(doc)
                                    /\ doc[i - 1] = <<"\\begin{lstlisting}\n">>
                                    /\ doc[i + 1] = <<"\\end{lstlisting}\n">>

\* C2 amended: after gen_chapter returns normally, every matching file of a
\* section numbered 1 or more has its contents in the document exactly once,
\* between one begin/end listing pair, and a matching file of a section
\* below 1 is not in the document.
C2_EveryListedFileOnce ==
    LastReturned =>
        LET d == LastStarted
            doc == out[PathOf(d)]
        IN  \A f \in MatchedFiles(d) \ Mismatched(d) :
                LET P == Positions(doc, <<"// ">> \o d \o <<"/">> \o f)
                IN  IF SectionOf(f) >= 1
                    THEN /\ Cardinality(P) = 1
                         /\ \A i \in P : /\ 1 < i /\ i < Len(doc)
                                         /\ doc[i - 1] = <<"\\begin{lstlisting}\n">>
                                         /\ doc[i + 1] = <<"\\end{lstlisting}\n">>
                    ELSE P = {}

\* A chapter returned with one file of section 0 and one of a listed section.
C2_Witness ==
    /\ LastReturned
    /\ \E f, g \in MatchedFiles(LastStarted) : SectionOf(f) = 0 /\ SectionOf(g) >= 1

\* C3: in a returned chapter, an emitted entry that carries a subsection
\* number (0 included) has, right before its listing, a \subsection header
\* of its name with underscores turned to spaces; an entry without one has
\* no such header; the headers of a section are in ascending subsection
\* order.
C3_SubsectionHeaders ==
    LastReturned =>
        LET d == LastStarted
            doc == out[PathOf(d)]
            Listed == { f \in MatchedFiles(d) \ Mismatched(d) : SectionOf(f) >= 1 }
            Pos(f) == CHOOSE i \in Positions(doc, <<"// ">> \o d \o <<"/">> \o f) : TRUE
        IN  /\ \A f \in Listed :
                /\ Positions(doc, <<"// ">> \o d \o <<"/">> \o f) # {}
                /\ Pos(f) > 2
                /\ IF HasSubsection(f)
                   THEN doc[Pos(f) - 2] =
                          <<"\\subsection{">> \o replace(FILE_RE(f).g4, "_", " ")
                          \o <<"}\n">>
                   ELSE ~IsSubsectionHeader(doc[Pos(f) - 2])
            /\ \A f, g \in Listed :
                (/\ HasSubsection(f) /\ HasSubsection(g)
                 /\ SectionOf(f) = SectionOf(g)
                 /\ SubsectionOf(f) < SubsectionOf(g)) => Pos(f) < Pos(g)

\* C4: in every document the section numbers of the \section headers never
\* decrease from start to end, every one is 1 or more, and nothing is written
\* for an entry of a section below 1: the contents in a document are those
\* of matching files of sections 1 and up, and every \subsection header
\* stands before the listing of such a file.
C4_SectionsAscendingFromOne ==
    \A p \in DOMAIN out :
        LET doc == out[p]
            nums == SelectSeq(doc, IsSetSection)
            Listed(x) == FILE_RE(x[2]).matched /\ SectionOf(x[2]) >= 1
        IN  /\ \A i \in 1..Len(doc) :
                IsSectionHeader(doc[i]) => i < Len(doc) /\ IsSetSection(doc[i + 1])
            /\ Len(nums) = Len(SelectSeq(doc, IsSectionHeader))
            /\ \A i \in 1..Len(nums) : SectionNumber(nums[i]) >= 1
            /\ \A i, j \in 1..Len(nums) :
                i < j => SectionNumber(nums[i]) <= SectionNumber(nums[j])
            /\ \A x \in files :
                Positions(doc, <<"// ">> \o x[1] \o <<"/">> \o x[2]) # {} => Listed(x)
            /\ \A i \in 1..Len(doc) :
                IsSubsectionHeader(doc[i]) =>
                    /\ i + 2 <= Len(doc)
                    /\ \E x \in files :
                          /\ doc[i + 2] = <<"// ">> \o x[1] \o <<"/">> \o x[2]
                          /\ Listed(x)

\* A finished document with the headers of two sections.
C4_Witness ==
    /\ LastReturned
    /\ Len(SelectSeq(out[PathOf(LastStarted)], IsSetSection)) >= 2

\* C5: gen_chapter on a directory that holds a matching file of another
\* chapter never gets past the collection loop (it leaves it only by the
\* failed assertion on that file), and no document holds the contents of
\* such a file.
C5_MismatchFailsBeforeOutput ==
    LET Bad == { x \in files :
                   /\ FILE_RE(x[2]).matched
                   /\ int(FILE_RE(x[2]).g1) # ChapterOf(x[1]) }
    IN  \A x \in Bad :
            /\ x[1] \in StartedDirs =>
                  /\ x[1] = LastStarted
                  /\ pc \in {"collect", "AssertionError"}
                  /\ pc = "collect" => x[2] \in listing
            /\ \A p \in DOMAIN out :
                  Positions(out[p], <<"// ">> \o x[1] \o <<"/">> \o x[2]) = {}

\* The assertion failed after a file of the right chapter had been collected.
C5_Witness ==
    /\ pc = "AssertionError"
    /\ entries # <<>>
    /\ Mismatched(dirname) # {}

\* C6, for runs that end normally: a second run on the unchanged tree leaves
\* the output files the first run left, whatever the listing orders were.
C6_SameTreeSameOutput ==
    (run = 2 /\ pc = "done" /\ firstPc = "done") => out = firstOut

\* C7: the sort step completes, and the entries are emitted in ascending
\* order of (chapter, section, subsection, name, file) with an absent
\* subsection below every number.
C7_SortCompletesAscending ==
    /\ pc # "TypeError"
    /\ pc = "emit" =>
          \A i, j \in 1..Len(queue) :
              i < j =>
                  LET a == queue[i]
                      b == queue[j]
                  IN  \/ a[2] < b[2]
                      \/ a[2] = b[2] /\ a[3] < b[3]
                      \/ a[2] = b[2] /\ a[3] = b[3] /\ StrLess(a[4], b[4])
                      \/ a[2] = b[2] /\ a[3] = b[3] /\ a[4] = b[4]
                         /\ StrLess(a[5], b[5])

C10_TitleThenChecksThenEntries ==
    /\ pc \in {"collect", "AssertionError"} =>
          /\ OutName(chapter) \in DOMAIN out
          /\ out[OutName(chapter)] =
                << <<"\\chapter{">> \o replace(chapter_name, "-", " ") \o <<"}\n">> >>
    /\ (dirname # <<>> /\ Len(out[OutName(chapter)]) > 1) =>
          pc = "emit" /\ listing = {}

\* The assertion failed in a chapter whose output existed before the run,
\* after a file of the chapter had been collected.
C10_Witness ==
    /\ pc = "AssertionError"
    /\ OutName(chapter) \in DOMAIN prior
    /\ entries # <<>>

====
